---- MODULE Spec2Model ----
(***************************************************************************)
(* MedicalPDFClaimsParser (src/MedicalParserVercelVersion.py): the block   *)
(* generator iterate_all_patient_blocks, the consumer loop of              *)
(* process_pdf_and_create_dataframe, process_individual_patient_block and  *)
(* the continuation stitcher get_remaining_patient_block_content.          *)
(*                                                                         *)
(* The document is reached only through the document-access library.  A   *)
(* page's content is fixed the first time the program reads it: the text   *)
(* and the column landmarks when the page loop reaches the page, the       *)
(* 'PATIENT:' / 'CLAIM STATUS' label positions when a stitcher first       *)
(* searches the page.  Strings are sequences of tokens; <<>> is ''.        *)
(*                                                                         *)
(* Spec is a whole run over a document.  FunctionSpec applies one function *)
(* of the parser (the segmenter over characters, the crop rectangle, the   *)
(* single-page and multi-page column extractors) to bounded inputs.        *)
(***************************************************************************)
EXTENDS Integers, Sequences, FiniteSets, TLC

\* ---------------------------------------------------------------- bounds
MaxPages == 3
MaxBlocks == 2

\* ------------------------------------------------------------- constants
DEFAULT_TOP == 63
CLAIM_TOP_PADDING == 30
FIRST_SECTION_PADDING == 10
NEXT_CLAIM_MARGIN == 20
REGION_NUDGE == 20

\* search_for(...) returned no rectangle / a function returned None
NoHit == 0 - 1

\* page.rect.height of every page
PageHeight == 800

\* ------------------------------------------------------------ field sets
FIELD_EXTRACTION_PATTERNS ==
    {"Patient Name", "Patient ID", "Provider Name", "Provider ID", "Patient CTRL",
     "Provider CTRL", "Charge", "Payment", "PAYEE ID"}

CLAIM_REFERENCE_PATTERNS == {"Claim Number", "Orig Ref Num"}

HEADER_FIELD_PATTERNS ==
    {"CLAIM STATUS", "PAYEE", "VENDOR", "Pay Date", "CHECK/EFT", "CHECK/EFT Date"}

GeometryFields == {"Date Of Service", "Service Code", "Modifier"}

EmptyStr == <<>>

\* dict.update / dict.copy().update(): the right operand wins
Update(d, e) ==
    [k \in (DOMAIN d) \cup (DOMAIN e) |-> IF k \in DOMAIN e THEN e[k] ELSE d[k]]

\* ------------------------------------------------- document-access inputs
\* A page text is a preamble followed by the spans that start with a match of
\* PATIENT_TAG_PATTERN.  A span carries what the patterns find in it:
\*   close : PATIENT_RESPONSE_TAG_PATTERN matches the span
\*   clm   : "CLM #:" matches and the claim number is located on the page
\*   ref   : "ORIG REF NBR:" matches and the number is located on the page
Preamble == [tag |-> FALSE, close |-> FALSE, clm |-> FALSE, ref |-> FALSE]

TaggedSpans ==
    {sp \in [tag : {TRUE}, close : BOOLEAN, clm : BOOLEAN, ref : BOOLEAN] :
        sp.ref => sp.clm /\ sp.close}

SpanSeqs(n) == UNION {[1..k -> TaggedSpans] : k \in 0..n}

\* the texts a page may hold when the document has room for n more patient tags
PageTexts(n) == {<<Preamble>> \o s : s \in SpanSeqs(n)}

\* Hits of ' DOS ', 'ADJ/PROD', ' MOD ' on a page: landmark -> [x0, x1, y1]
LandmarkRect(name, shift) ==
    CASE name = "dos" -> [x0 |-> 100 + shift, x1 |-> 130 + shift, y1 |-> 90]
      [] name = "adj" -> [x0 |-> 200 + shift, x1 |-> 250 + shift, y1 |-> 90]
      [] name = "mod" -> [x0 |-> 300 + shift, x1 |-> 330 + shift, y1 |-> 90]

LandmarkSets == {{}, {"dos"}, {"adj", "mod"}, {"dos", "adj", "mod"}}

LandmarkHits ==
    {[n \in s |-> LandmarkRect(n, sh)] : s \in LandmarkSets, sh \in {0, 5}}

\* Hits of 'PATIENT:' (top y0 of the first hit) and 'CLAIM STATUS' (bottom y1 of
\* the first hit) on a page
Unread == [pat |-> 0 - 2, cs |-> 0 - 2]

PageLayouts == {[pat |-> p, cs |-> c] : p \in {NoHit, 40, 100}, c \in {NoHit, 50}}

\* Row of the claim line of the k-th span of a page
ClaimY0(k) == 100 + 200 * (k - 1)
ClaimY1(k) == ClaimY0(k) + 10

\* Tokens standing for the text a pattern captures / a clip returns
TextOfPage(p) == p
TextOfBlock(p, k) == 100 + 10 * p + k
Captured(kind, text) == <<1000 * kind + text>>

NoRect == [y0 |-> NoHit, y1 |-> NoHit]


\* ------------------------------------------------------ GeometryCalibrator
extract_page_geometry_coordinates(hits) ==
    LET dos == IF "dos" \in DOMAIN hits
               THEN ("dos_x0" :> hits["dos"].x0 - 30) @@ ("dos_x1" :> hits["dos"].x1 + 30)
                    @@ ("dos_y1" :> hits["dos"].y1)
               ELSE <<>>
        adj == IF "adj" \in DOMAIN hits
               THEN ("adj_x0" :> hits["adj"].x0 - 2) @@ ("adj_x1" :> hits["adj"].x1 + 10)
               ELSE <<>>
        mod == IF "mod" \in DOMAIN hits
               THEN ("mod_x0" :> hits["mod"].x0 - 20) @@ ("mod_x1" :> hits["mod"].x1 + 20)
               ELSE <<>>
    IN  dos @@ adj @@ mod

\* patient_regex.search(content)
HasPatientTag(text) == \E i \in 1..Len(text) : text[i].tag

Calibrate_Recompute(extracted, dict, text, hits) ==
    IF HasPatientTag(text)
    THEN LET g == extract_page_geometry_coordinates(hits)
         IN  [dict |-> g, extracted |-> extracted \/ DOMAIN g # {}]
    ELSE [dict |-> dict, extracted |-> extracted]

\* iterate_all_patient_blocks, the calibration step of one page
Calibrate(extracted, dict, text, hits) ==
    IF ~extracted /\ HasPatientTag(text)
    THEN LET g == extract_page_geometry_coordinates(hits)
         IN  [dict |-> g, extracted |-> DOMAIN g # {}]
    ELSE [dict |-> dict, extracted |-> extracted]

\* ---------------------------------------------------------- BlockSegmenter
TagPositions(text) == {i \in 1..Len(text) : text[i].tag}

MakeBlocks(text, positions, page_number, dict) ==
    LET RECURSIVE Build(_, _)
        Build(i, k) ==
            IF i > Len(text) THEN <<>>
            ELSE IF i \in positions
                 THEN <<[span |-> text[i], pos |-> i, idx |-> k, page |-> page_number,
                         page_text |-> TextOfPage(page_number),
                         text |-> TextOfBlock(page_number, k),
                         geometry |-> dict]>> \o Build(i + 1, k + 1)
                 ELSE Build(i + 1, k)
    IN  Build(1, 1)

extract_patient_blocks_NoEarlyReturn(text, page_number, dict) ==
    MakeBlocks(text, 1..Len(text), page_number, dict)

\* The blocks one page yields, in text order
extract_patient_blocks_from_page(text, page_number, dict) ==
    IF TagPositions(text) = {} THEN <<>>
    ELSE MakeBlocks(text, TagPositions(text), page_number, dict)

\* The same segmentation over the characters of the page text: "n" is a newline,
\* "P" the text that PATIENT\s*: matches, "x" any other character.
Chars == {"n", "P", "x"}

Texts(n) == UNION {[1..k -> Chars] : k \in 0..n}

RECURSIVE finditer(_, _)
\* regex.finditer(current_page_text): the start offsets of the successive
\* non-overlapping matches of PATIENT_TAG_PATTERN at or after offset i
finditer(text, i) ==
    IF i + 1 > Len(text) THEN <<>>
    ELSE IF text[i] = "n" /\ text[i + 1] = "P"
         THEN <<i>> \o finditer(text, i + 2)
         ELSE finditer(text, i + 1)

RECURSIVE lstrip(_)
lstrip_Nothing(s) == s

\* str.lstrip("\n")
lstrip(s) ==
    IF s # <<>> /\ Head(s) = "n" THEN lstrip(Tail(s)) ELSE s

\* current_page_text[start:stop], offsets counted from 1
Slice(text, start, stop) == SubSeq(text, start, stop - 1)

RECURSIVE YieldBlocks(_, _, _)
\* "for match in iterator: yield ...; start_position = match.start()", then the
\* final block
YieldBlocks(text, start_position, matches) ==
    IF matches = <<>>
    THEN <<lstrip(Slice(text, start_position, Len(text) + 1))>>
    ELSE <<lstrip(Slice(text, start_position, Head(matches)))>>
         \o YieldBlocks(text, Head(matches), Tail(matches))

\* the block texts extract_patient_blocks_from_page yields for a page text
extract_patient_block_texts(text) ==
    LET matches == finditer(text, 1)
    IN  IF matches = <<>> THEN <<>>
        ELSE YieldBlocks(text, Head(matches), Tail(matches))

\* ------------------------------------------------------ ContinuationStitcher
AtEndOfDocument_OffByOne(n, count) == n > count

\* "if current_page_number >= document.page_count: break"
AtEndOfDocument(n, count) == n >= count

StopsAtLandmark_Never(lay) == FALSE

\* the two "break" statements under "if len(patient_text_instances) > 0"
StopsAtLandmark(lay) == lay.pat # NoHit

\* The crop rectangle of one visited page
StitchRectangle(lay) ==
    [y0 |-> IF lay.cs # NoHit THEN lay.cs ELSE DEFAULT_TOP,
     y1 |-> IF lay.pat # NoHit THEN lay.pat ELSE PageHeight]

\* ------------------------------------------------------------ crop regions
\* claim numbers of the page text, as positions of the spans that hold them
ClaimPositions(text) == {i \in 1..Len(text) : text[i].clm}

MaxOf(S) == CHOOSE x \in S : \A y \in S : y <= x
MinOf(S) == CHOOSE x \in S : \A y \in S : x <= y

\* position i of the text is the (i-1)-th tagged span: its claim line row
RowY0(i) == ClaimY0(i - 1)
RowY1(i) == ClaimY1(i - 1)

get_first_block_section(text, page_number) ==
    IF ClaimPositions(text) = {} THEN NoRect
    ELSE [page |-> page_number,
          y0 |-> RowY1(MaxOf(ClaimPositions(text))) + FIRST_SECTION_PADDING,
          y1 |-> PageHeight]

\* "int(rectangles[0].y0) - 20 if rectangles else None", next_y0 the top of the
\* first hit of the next claim number
BottomByNextClaim(next_y0) ==
    IF next_y0 = NoHit THEN NoHit ELSE next_y0 - NEXT_CLAIM_MARGIN

get_bottom_coordinate_by_next_claim(text, i) ==
    LET later == {j \in ClaimPositions(text) : j > i}
    IN  IF Cardinality(ClaimPositions(text)) < 2 THEN NoHit
        ELSE IF later = {} THEN NoHit
        ELSE BottomByNextClaim(RowY0(MinOf(later)))

\* the 'PAT RESP:' hits inside the clip that starts at the claim row:
\* "max(rect.y0 for rect in response_hits)", None without a claim hit or a hit
BottomByLastResponse(claim_y0, response_y0s) ==
    LET response_hits == {h \in response_y0s : h >= claim_y0}
    IN  IF claim_y0 = NoHit THEN NoHit
        ELSE IF response_hits = {} THEN NoHit
        ELSE MaxOf(response_hits)

find_bottom_of_last_patient_response(text, i) ==
    BottomByLastResponse(IF text[i].clm THEN RowY0(i) ELSE NoHit,
                         {RowY0(j) + 170 : j \in {k \in i..Len(text) : text[k].close}})

\* Python's "a or b" over int-or-None
PyOr(a, b) == IF a # NoHit /\ a # 0 THEN a ELSE b

\* The body of create_claim_block_crop_rectangle over what the searches return:
\* claim_y1 is int(claim_hits[0].y1), reference_y0 is int(reference_hits[0].y0),
\* NoHit where the search has no hit
CropRectangle(claim_y1, reference_y0, next_bottom, response_bottom) ==
    LET top == claim_y1 + CLAIM_TOP_PADDING
        bottom == IF reference_y0 # NoHit THEN reference_y0
                  ELSE PyOr(next_bottom, response_bottom)
    IN  IF claim_y1 = NoHit THEN NoRect
        ELSE IF bottom = NoHit \/ bottom <= top THEN NoRect
        ELSE [y0 |-> top, y1 |-> bottom]

create_claim_block_crop_rectangle(text, i) ==
    CropRectangle(IF text[i].clm THEN RowY1(i) ELSE NoHit,
                  IF text[i].ref THEN RowY0(i) + 150 ELSE NoHit,
                  get_bottom_coordinate_by_next_claim(text, i),
                  find_bottom_of_last_patient_response(text, i))

\* ----------------------------------------------------------- FieldExtractor
\* A line of clipped text is a token: 0 is a line of white space only, v in
\* 1..99 is the text v, 100 + v is the text v with white space around it.
VARIABLES
    column_text,          \* page -> column -> lines printed in that column of the page
    call                  \* the function application of the function-level runs

\* the lines the document holds when nothing else is drawn: one per page and column
DefaultColumnText ==
    [p \in 0..(MaxPages + 1) |->
        [c \in {"dos", "adj", "mod"} |->
            <<10 * (CASE c = "dos" -> 5 [] c = "adj" -> 6 [] c = "mod" -> 7) + p + 1>>]]

\* page.get_text('text', clip=...).splitlines() of one column of one region
ClipLines(col, page, y0, y1) ==
    IF y0 < y1 THEN column_text[page][col] ELSE <<>>

strip_Identity(line) == line

\* line.strip()
strip(line) == line % 100

ColumnKeys(col) ==
    CASE col = "dos" -> {"dos_x0", "dos_x1"}
      [] col = "adj" -> {"adj_x0", "adj_x1"}
      [] col = "mod" -> {"mod_x0", "mod_x1"}

RECURSIVE OrderedUnique(_, _)
\* "line = line.strip(); if line and line not in seen_values: ...
\*  ordered_values.append(line)"
OrderedUnique(ordered, lines) ==
    IF lines = <<>> THEN ordered
    ELSE LET line == strip(Head(lines))
         IN  IF line = 0 \/ \E i \in 1..Len(ordered) : ordered[i] = line
             THEN OrderedUnique(ordered, Tail(lines))
             ELSE OrderedUnique(Append(ordered, line), Tail(lines))

\* "if line.strip(): a_set.add(line.strip())"
StrippedSet(lines) ==
    {strip(lines[i]) : i \in {j \in 1..Len(lines) : strip(lines[j]) # 0}}

\* ','.join(list(a_set)): any enumeration order of the set
JoinOrders(S) ==
    {s \in [1..Cardinality(S) -> S] : \A i, j \in 1..Cardinality(S) : s[i] = s[j] => i = j}

Ok(v) == [err |-> "none", vals |-> {v}]
Raise(e) == [err |-> e, vals |-> {EmptyStr}]

extract_patient_dates_of_service(page, rect, dict) ==
    IF ~(ColumnKeys("dos") \subseteq DOMAIN dict) THEN Raise("KeyError")
    ELSE Ok(OrderedUnique(<<>>, ClipLines("dos", page, rect.y0, rect.y1)))

extract_patient_service_codes(page, rect, dict) ==
    IF ~(ColumnKeys("adj") \subseteq DOMAIN dict) THEN Raise("KeyError")
    ELSE [err |-> "none",
          vals |-> JoinOrders(StrippedSet(ClipLines("adj", page, rect.y0, rect.y1)))]

extract_patient_modifiers(page, rect, dict) ==
    IF ~(ColumnKeys("mod") \subseteq DOMAIN dict) THEN Raise("KeyError")
    ELSE [err |-> "none",
          vals |-> JoinOrders(StrippedSet(ClipLines("mod", page, rect.y0, rect.y1)))]

RECURSIVE RegionLines(_, _, _)
\* the lines of the column in regions i..Len(list); the last region's bottom is nudged up
RegionLines(list, col, i) ==
    IF i > Len(list) THEN <<>>
    ELSE ClipLines(col, list[i].page, list[i].y0 + REGION_NUDGE,
                   IF i = Len(list) THEN list[i].y1 - REGION_NUDGE ELSE list[i].y1)
         \o RegionLines(list, col, i + 1)

\* the body shared by the three *_from_multiple_pages extractors
ExtractFromMultiplePages(list, dict, col) ==
    IF list = <<>> THEN Ok(EmptyStr)
    ELSE IF Len(list) < 2 THEN Raise("ValueError")
    ELSE IF ~(ColumnKeys(col) \subseteq DOMAIN dict) THEN Raise("KeyError")
    ELSE Ok(OrderedUnique(<<>>, RegionLines(list, col, 1)))

extract_dates_of_service_from_multiple_pages(list, dict) ==
    ExtractFromMultiplePages(list, dict, "dos")

extract_service_codes_from_multiple_pages(list, dict) ==
    ExtractFromMultiplePages(list, dict, "adj")

extract_modifiers_from_multiple_pages(list, dict) ==
    ExtractFromMultiplePages(list, dict, "mod")

\* ---------------------------------------------------------- RecordAssembler
BaseData == [k \in FIELD_EXTRACTION_PATTERNS |-> EmptyStr]

\* CLAIM_REFERENCE_PATTERNS applied to the block text
ClaimReferences(block) ==
    ("Claim Number" :> (IF block.span.clm THEN Captured(2, block.text) ELSE EmptyStr))
    @@ ("Orig Ref Num" :> (IF block.span.ref THEN Captured(3, block.text) ELSE EmptyStr))

\* FIELD_EXTRACTION_PATTERNS applied to the block text
TagFields(block) == [k \in FIELD_EXTRACTION_PATTERNS |-> Captured(1, block.text)]

extract_header_field_information(text) ==
    [k \in HEADER_FIELD_PATTERNS |-> Captured(4, text)]

HeaderSource_BlockText(block) == block.text

\* the argument of extract_header_field_information: current_page_text
HeaderSource(block) == block.page_text

GeometryData(dos, svc, mod) ==
    ("Date Of Service" :> dos) @@ ("Service Code" :> svc) @@ ("Modifier" :> mod)

\* base_data after the tag patterns, merged with the header fields
FinalData(block, base) ==
    Update(Update(base, TagFields(block)),
           extract_header_field_information(HeaderSource(block)))

\* ------------------------------------------------------------------ state
VARIABLES
    pc,                   \* where the run is: start, page, block, stitch, extract, done, aborted
    pdf_exists,           \* os.path.exists(self.pdf_path)
    page_count,           \* document.page_count
    docOpen,              \* the "with fitz.open(...)" scope is entered and not left
    page_number,          \* the page loop's index
    geometry_dict,
    geometry_extracted,
    page_text,            \* reading-order text of the page the generator is suspended in
    page_hits,            \* landmark hits of that page
    pending,              \* blocks of that page not yet yielded
    cur,                  \* the block tuple being processed
    crop_rectangles_list,
    stitch_page,          \* current_page_number inside get_remaining_patient_block_content
    visited,              \* pages the running stitcher has loaded, with their 'PATIENT:' hit
    layout,               \* label positions of the pages searched ahead of the page loop
    all_rows,
    err,                  \* the exception that ended the run
    tags,                 \* patient-tag occurrences read so far, <<page, k>>
    emitted,              \* the tag occurrence each row of all_rows was made from
    calibFrom             \* first page with a tag and a landmark, and its hits

vars == <<column_text, call, pc, pdf_exists, page_count, docOpen, page_number, geometry_dict,
          geometry_extracted, page_text, page_hits, pending, cur,
          crop_rectangles_list, stitch_page, visited, layout, all_rows, err,
          tags, emitted, calibFrom>>

NoBlock == [idx |-> 0]
NoCalibration == [page |-> NoHit]
NoCall == [op |-> "none"]

Init ==
    /\ column_text = DefaultColumnText
    /\ call = NoCall
    /\ pc = "start"
    /\ pdf_exists \in BOOLEAN
    /\ page_count \in 1..MaxPages
    /\ docOpen = FALSE
    /\ page_number = 0
    /\ geometry_dict = <<>>
    /\ geometry_extracted = FALSE
    /\ page_text = <<>>
    /\ page_hits = <<>>
    /\ pending = <<>>
    /\ cur = NoBlock
    /\ crop_rectangles_list = <<>>
    /\ stitch_page = 0
    /\ visited = <<>>
    /\ layout = [p \in 0..(MaxPages + 1) |-> Unread]
    /\ all_rows = <<>>
    /\ err = "none"
    /\ tags = <<>>
    /\ emitted = <<>>
    /\ calibFrom = NoCalibration

SuspendedAtYield_ScopeLeft(open) == FALSE

\* "yield from self.extract_patient_blocks_from_page(...)" stands inside the
\* "with": a yielded block leaves the generator suspended in the entered scope
SuspendedAtYield(open) == open

ExitWithScope_Skipped(open) == open

\* "with fitz.open(self.pdf_path) as document": the scope is left when the page
\* loop ends, or when the generator suspended at a yield is finalized
\* (GeneratorExit raised at the yield); leaving it closes the document
ExitWithScope(open) == FALSE

\* iterate_all_patient_blocks up to the "with": a missing path ends the generator
Start ==
    /\ pc = "start"
    /\ IF pdf_exists
       THEN docOpen' = TRUE /\ pc' = "page"
       ELSE docOpen' = FALSE /\ pc' = "done"
    /\ UNCHANGED <<column_text, call, pdf_exists, page_count, page_number, geometry_dict,
                   geometry_extracted, page_text, page_hits, pending, cur,
                   crop_rectangles_list, stitch_page, visited, layout, all_rows,
                   err, tags, emitted, calibFrom>>

\* One iteration of "for page_number, page in enumerate(document)" up to its
\* first yield, or to the next iteration when the page yields nothing
ReadPage ==
    /\ pc = "page"
    /\ page_number < page_count
    /\ \E text \in PageTexts(MaxBlocks - Len(tags)), hits \in LandmarkHits :
         LET cal == Calibrate(geometry_extracted, geometry_dict, text, hits)
             blocks == extract_patient_blocks_from_page(text, page_number, cal.dict)
             n == Cardinality(TagPositions(text))
         IN  /\ geometry_dict' = cal.dict
             /\ geometry_extracted' = cal.extracted
             /\ tags' = tags \o [k \in 1..n |-> <<page_number, k>>]
             /\ calibFrom' = IF calibFrom = NoCalibration /\ HasPatientTag(text)
                                /\ DOMAIN hits # {}
                             THEN [page |-> page_number, hits |-> hits]
                             ELSE calibFrom
             /\ layout' = [layout EXCEPT ![page_number] = Unread]
             /\ docOpen' = IF blocks = <<>> THEN docOpen ELSE SuspendedAtYield(docOpen)
             /\ IF blocks = <<>>
                THEN /\ pc' = "page"
                     /\ page_number' = page_number + 1
                     /\ page_text' = <<>>
                     /\ page_hits' = <<>>
                     /\ cur' = NoBlock
                     /\ pending' = <<>>
                ELSE /\ pc' = "block"
                     /\ page_number' = page_number
                     /\ page_text' = text
                     /\ page_hits' = hits
                     /\ cur' = Head(blocks)
                     /\ pending' = Tail(blocks)
    /\ UNCHANGED <<column_text, call, pdf_exists, page_count, crop_rectangles_list,
                   stitch_page, visited, all_rows, err, emitted>>

\* The page loop is exhausted: the "with" scope closes the document and the
\* consumer loop of process_pdf_and_create_dataframe ends
Finish ==
    /\ pc = "page"
    /\ page_number >= page_count
    /\ pc' = "done"
    /\ docOpen' = ExitWithScope(docOpen)
    /\ UNCHANGED <<column_text, call, pdf_exists, page_count, page_number, geometry_dict,
                   geometry_extracted, page_text, page_hits, pending, cur,
                   crop_rectangles_list, stitch_page, visited, layout, all_rows,
                   err, tags, emitted, calibFrom>>

\* all_rows.extend(processed_rows), then the generator resumes: it yields the
\* next block of the page or moves to the next page
EmitAndResume(final_data) ==
    /\ all_rows' = Append(all_rows, final_data)
    /\ emitted' = Append(emitted, <<cur.page, cur.idx>>)
    /\ err' = err
    /\ docOpen' = IF pending # <<>> THEN SuspendedAtYield(docOpen) ELSE docOpen
    /\ crop_rectangles_list' = <<>>
    /\ visited' = <<>>
    /\ IF pending # <<>>
       THEN /\ pc' = "block"
            /\ cur' = Head(pending)
            /\ pending' = Tail(pending)
            /\ UNCHANGED <<page_number, page_text, page_hits>>
       ELSE /\ pc' = "page"
            /\ cur' = NoBlock
            /\ pending' = <<>>
            /\ page_text' = <<>>
            /\ page_hits' = <<>>
            /\ page_number' = page_number + 1

\* An exception leaves process_individual_patient_block and the consumer loop:
\* the frame of process_pdf_and_create_dataframe drops the iterator it holds,
\* which finalizes the suspended generator
Abort(e) ==
    /\ pc' = "aborted"
    /\ err' = e
    /\ docOpen' = ExitWithScope(docOpen)
    /\ UNCHANGED <<all_rows, emitted, crop_rectangles_list, visited, cur, pending,
                   page_number, page_text, page_hits>>

FirstError(results) ==
    IF \E i \in 1..Len(results) : results[i].err # "none"
    THEN results[MinOf({i \in 1..Len(results) : results[i].err # "none"})].err
    ELSE "none"

\* process_individual_patient_block, the block has a closing marker
ProcessSingle ==
    /\ pc = "block"
    /\ cur.span.close
    /\ LET base == Update(BaseData, ClaimReferences(cur))
           rect == create_claim_block_crop_rectangle(page_text, cur.pos)
           dos == extract_patient_dates_of_service(cur.page, rect, cur.geometry)
           svc == extract_patient_service_codes(cur.page, rect, cur.geometry)
           mod == extract_patient_modifiers(cur.page, rect, cur.geometry)
           e == FirstError(<<dos, svc, mod>>)
       IN  IF rect = NoRect
           THEN EmitAndResume(FinalData(cur, base))
           ELSE IF e # "none"
                THEN Abort(e)
                ELSE \E d \in dos.vals, s \in svc.vals, m \in mod.vals :
                        EmitAndResume(FinalData(cur, Update(base, GeometryData(d, s, m))))
    /\ UNCHANGED <<column_text, call, pdf_exists, page_count, geometry_dict,
                   geometry_extracted, stitch_page, layout, tags, calibFrom>>

\* process_individual_patient_block, no closing marker: the origin-page region,
\* then the call of get_remaining_patient_block_content
BeginMulti ==
    /\ pc = "block"
    /\ ~cur.span.close
    /\ LET first == get_first_block_section(page_text, cur.page)
       IN  crop_rectangles_list' = IF first # NoRect THEN <<first>> ELSE <<>>
    /\ stitch_page' = cur.page
    /\ visited' = <<>>
    /\ pc' = "stitch"
    /\ UNCHANGED <<column_text, call, pdf_exists, page_count, docOpen, page_number, geometry_dict,
                   geometry_extracted, page_text, page_hits, pending, cur, layout,
                   all_rows, err, tags, emitted, calibFrom>>

\* get_remaining_patient_block_content: one iteration that loads a page
StitchVisit ==
    /\ pc = "stitch"
    /\ ~AtEndOfDocument(stitch_page + 1, page_count)
    /\ \E lay \in PageLayouts :
         /\ layout[stitch_page + 1] \in {Unread, lay}
         /\ layout' = [layout EXCEPT ![stitch_page + 1] = lay]
         /\ crop_rectangles_list' =
                Append(crop_rectangles_list,
                       [page |-> stitch_page + 1, y0 |-> StitchRectangle(lay).y0,
                        y1 |-> StitchRectangle(lay).y1])
         /\ visited' = Append(visited, [page |-> stitch_page + 1, pat |-> lay.pat])
         /\ pc' = IF StopsAtLandmark(lay) THEN "extract" ELSE "stitch"
    /\ stitch_page' = stitch_page + 1
    /\ UNCHANGED <<column_text, call, pdf_exists, page_count, docOpen, page_number, geometry_dict,
                   geometry_extracted, page_text, page_hits, pending, cur,
                   all_rows, err, tags, emitted, calibFrom>>

\* get_remaining_patient_block_content: the iteration that breaks at end of document
StitchEnd ==
    /\ pc = "stitch"
    /\ AtEndOfDocument(stitch_page + 1, page_count)
    /\ stitch_page' = stitch_page + 1
    /\ pc' = "extract"
    /\ UNCHANGED <<column_text, call, pdf_exists, page_count, docOpen, page_number, geometry_dict,
                   geometry_extracted, page_text, page_hits, pending, cur,
                   crop_rectangles_list, visited, layout, all_rows, err, tags,
                   emitted, calibFrom>>

\* process_individual_patient_block after the stitcher returned
FinishMulti ==
    /\ pc = "extract"
    /\ LET base == Update(BaseData, ClaimReferences(cur))
           dos == extract_dates_of_service_from_multiple_pages(crop_rectangles_list, cur.geometry)
           svc == extract_service_codes_from_multiple_pages(crop_rectangles_list, cur.geometry)
           mod == extract_modifiers_from_multiple_pages(crop_rectangles_list, cur.geometry)
           e == FirstError(<<dos, svc, mod>>)
       IN  IF e # "none"
           THEN Abort(e)
           ELSE \E d \in dos.vals, s \in svc.vals, m \in mod.vals :
                   EmitAndResume(FinalData(cur, Update(base, GeometryData(d, s, m))))
    /\ UNCHANGED <<column_text, call, pdf_exists, page_count, geometry_dict,
                   geometry_extracted, stitch_page, layout, tags, calibFrom>>

Next ==
    \/ Start
    \/ ReadPage
    \/ Finish
    \/ ProcessSingle
    \/ BeginMulti
    \/ StitchVisit
    \/ StitchEnd
    \/ FinishMulti

Spec == Init /\ [][Next]_vars

\* ---------------------------------------------------- function-level runs
\* One function of the parser applied to inputs drawn from bounded sets, the
\* document open and the page loop not involved.
MaxLines == 3
MaxLen == 6

Columns == {"dos", "adj", "mod"}

Lines == {0, 1, 2, 101}

LineSeqs(n) == UNION {[1..k -> Lines] : k \in 0..n}

\* the geometry profile of a page that shows the three landmarks, and none
FullGeometry ==
    extract_page_geometry_coordinates([n \in Columns |-> LandmarkRect(n, 0)])

Geometries == {FullGeometry, <<>>}

\* a document whose column col holds `lines`: lines[1..a] on page 0,
\* lines[a+1..b] on page 1, the rest on page 2
SplitColumn(col, lines, a, b) ==
    [p \in 0..(MaxPages + 1) |->
        [c \in Columns |->
            IF c # col THEN DefaultColumnText[p][c]
            ELSE CASE p = 0 -> SubSeq(lines, 1, a)
                   [] p = 1 -> SubSeq(lines, a + 1, b)
                   [] p = 2 -> SubSeq(lines, b + 1, Len(lines))
                   [] OTHER -> <<>>]]

run_vars ==
    <<pc, pdf_exists, page_count, docOpen, page_number, geometry_dict,
      geometry_extracted, page_text, page_hits, pending, cur,
      crop_rectangles_list, stitch_page, visited, layout, all_rows, err,
      tags, emitted, calibFrom>>

\* the run is inside the consumer loop with the document open
InsideRun ==
    /\ pc = "call"
    /\ pdf_exists = TRUE
    /\ page_count = MaxPages
    /\ docOpen = TRUE
    /\ page_number = 0
    /\ geometry_dict = <<>>
    /\ geometry_extracted = FALSE
    /\ page_text = <<>>
    /\ page_hits = <<>>
    /\ pending = <<>>
    /\ cur = NoBlock
    /\ crop_rectangles_list = <<>>
    /\ stitch_page = 0
    /\ visited = <<>>
    /\ layout = [p \in 0..(MaxPages + 1) |-> Unread]
    /\ all_rows = <<>>
    /\ err = "none"
    /\ tags = <<>>
    /\ emitted = <<>>
    /\ calibFrom = NoCalibration

\* a block with a closing marker and a crop rectangle on page 0
SinglePageInit ==
    \E col \in Columns, lines \in LineSeqs(MaxLines), g \in Geometries :
        /\ column_text = SplitColumn(col, lines, Len(lines), Len(lines))
        /\ call = [op |-> "single", page |-> 0, rect |-> [y0 |-> 140, y1 |-> 250],
                   geometry |-> g, out |-> <<>>]

\* The three single-page extractors of process_individual_patient_block, applied
\* once in each of two runs over the same document
ApplySinglePageExtractors ==
    /\ call.op = "single"
    /\ Len(call.out) < 2
    /\ LET dos == extract_patient_dates_of_service(call.page, call.rect, call.geometry)
           svc == extract_patient_service_codes(call.page, call.rect, call.geometry)
           mod == extract_patient_modifiers(call.page, call.rect, call.geometry)
           e == FirstError(<<dos, svc, mod>>)
       IN  IF e # "none"
           THEN call' = [call EXCEPT !.out = Append(@, [err |-> e])]
           ELSE \E d \in dos.vals, s \in svc.vals, m \in mod.vals :
                   call' = [call EXCEPT !.out = Append(@, GeometryData(d, s, m))]
    /\ UNCHANGED <<column_text, run_vars>>

\* a page text handed to the segmenter
SegmentInit ==
    /\ column_text = DefaultColumnText
    /\ \E text \in Texts(MaxLen) :
          call = [op |-> "segment", text |-> text, done |-> FALSE, out |-> <<>>]

\* extract_patient_blocks_from_page run to exhaustion on the page text
ApplySegmenter ==
    /\ call.op = "segment"
    /\ ~call.done
    /\ call' = [call EXCEPT !.done = TRUE,
                            !.out = extract_patient_block_texts(call.text)]
    /\ UNCHANGED <<column_text, run_vars>>

\* what the searches of create_claim_block_crop_rectangle find on the page
CropInit ==
    /\ column_text = DefaultColumnText
    /\ \E claim \in {NoHit, 100}, reference \in {NoHit, 120, 250},
          next \in {NoHit, 20, 300}, responses \in SUBSET {60, 270, 400} :
          call = [op |-> "crop", done |-> FALSE, out |-> NoRect,
                  claim_y0 |-> claim,
                  claim_y1 |-> IF claim = NoHit THEN NoHit ELSE claim + 10,
                  reference_y0 |-> reference, next_y0 |-> next,
                  responses |-> responses]

ApplyCropRectangle ==
    /\ call.op = "crop"
    /\ ~call.done
    /\ call' = [call EXCEPT
                  !.done = TRUE,
                  !.out = CropRectangle(call.claim_y1, call.reference_y0,
                                        BottomByNextClaim(call.next_y0),
                                        BottomByLastResponse(call.claim_y0,
                                                             call.responses))]
    /\ UNCHANGED <<column_text, run_vars>>

\* crop_rectangles_list as process_individual_patient_block builds it: the
\* origin-page region, then the stitcher's regions
Region(p, top, bottom) == [page |-> p, y0 |-> top, y1 |-> bottom]

CropLists ==
    {<<>>,
     <<Region(0, 120, PageHeight)>>,
     <<Region(0, 120, PageHeight), Region(1, DEFAULT_TOP, PageHeight)>>,
     <<Region(0, 120, PageHeight), Region(1, DEFAULT_TOP, 100)>>,
     <<Region(0, 120, PageHeight), Region(1, DEFAULT_TOP, PageHeight),
       Region(2, DEFAULT_TOP, PageHeight)>>}

\* a block without closing marker whose column col holds `lines` over three pages
MultiPageInit ==
    \E col \in Columns, lines \in LineSeqs(MaxLines), list \in CropLists,
       g \in Geometries :
        \E a \in 0..Len(lines) : \E b \in a..Len(lines) :
            /\ column_text = SplitColumn(col, lines, a, b)
            /\ call = [op |-> "multi", col |-> col, list |-> list, geometry |-> g,
                       done |-> FALSE, out |-> Ok(EmptyStr)]

\* one of the three *_from_multiple_pages extractors applied to the list
ApplyMultiPageExtractor ==
    /\ call.op = "multi"
    /\ ~call.done
    /\ call' = [call EXCEPT
                  !.done = TRUE,
                  !.out = CASE call.col = "dos" ->
                                 extract_dates_of_service_from_multiple_pages(
                                     call.list, call.geometry)
                            [] call.col = "adj" ->
                                 extract_service_codes_from_multiple_pages(
                                     call.list, call.geometry)
                            [] call.col = "mod" ->
                                 extract_modifiers_from_multiple_pages(
                                     call.list, call.geometry)]
    /\ UNCHANGED <<column_text, run_vars>>

FunctionInit ==
    /\ InsideRun
    /\ \/ SinglePageInit
       \/ SegmentInit
       \/ CropInit
       \/ MultiPageInit

FunctionNext ==
    \/ ApplySinglePageExtractors
    \/ ApplySegmenter
    \/ ApplyCropRectangle
    \/ ApplyMultiPageExtractor

FunctionSpec == FunctionInit /\ [][FunctionNext]_vars

\* ----------------------------------------------------------------- claims
FieldSet ==
    FIELD_EXTRACTION_PATTERNS \cup CLAIM_REFERENCE_PATTERNS
        \cup HEADER_FIELD_PATTERNS \cup GeometryFields

Rows == 1..Len(all_rows)

\* C1: every record holds all 20 keys of the fixed field set, each mapped to a
\* string; a block with a closing marker and no crop rectangle has its three
\* geometry-derived fields present and empty.
C1_AllFieldsPresent ==
    \A i \in Rows : DOMAIN all_rows[i] = FieldSet

\* C2: a run emits exactly one record per patient-tag occurrence, the i-th
\* record made from the i-th occurrence in page order, then text order.
C2_OneRecordPerTag ==
    pc \in {"done", "aborted"} => emitted = tags

\* the records made so far follow the tag occurrences in order
C2_RecordsFollowTags ==
    /\ Len(emitted) <= Len(tags)
    /\ \A i \in 1..Len(emitted) : emitted[i] = tags[i]

\* C3: no block-level anomaly aborts the run; the block still yields a record.
C3_NeverAborts ==
    pc # "aborted"

\* C4: a geometry-profile entry that is missing leaves its field empty and raises
\* nothing; with no landmark on any page all three fields are empty.
C4_MissingLandmarksDegrade ==
    /\ err # "KeyError"
    /\ calibFrom = NoCalibration =>
          \A i \in Rows : \A f \in GeometryFields \cap DOMAIN all_rows[i] :
              all_rows[i][f] = EmptyStr

\* C5: the geometry profile is the one derived from the first page that has a
\* patient tag and a landmark; it never changes afterwards and every block of
\* that page and of later pages carries it.
C5_ProfileFrozen ==
    /\ calibFrom = NoCalibration => geometry_dict = <<>> /\ ~geometry_extracted
    /\ calibFrom # NoCalibration =>
          /\ geometry_extracted
          /\ geometry_dict = extract_page_geometry_coordinates(calibFrom.hits)
          /\ cur # NoBlock /\ cur.page >= calibFrom.page =>
                cur.geometry = extract_page_geometry_coordinates(calibFrom.hits)
          /\ \A i \in 1..Len(pending) :
                pending[i].geometry = extract_page_geometry_coordinates(calibFrom.hits)

\* a block of a later page whose own landmarks differ from the calibration page's
C5_Witness ==
    /\ calibFrom # NoCalibration
    /\ pc = "block"
    /\ cur.page > calibFrom.page
    /\ DOMAIN page_hits # {}
    /\ extract_page_geometry_coordinates(page_hits) # cur.geometry

\* C6: while no patient tag has been read there is no block, no record and no
\* error; every record comes from a page that holds a tag.
C6_NoTagsNoRecords ==
    /\ tags = <<>> => pc \in {"start", "page", "done"} /\ all_rows = <<>> /\ err = "none"
    /\ \A i \in 1..Len(emitted) : \E j \in 1..Len(tags) : tags[j][1] = emitted[i][1]

\* a finished run over an opened document of several pages without any tag
C6_Witness ==
    pc = "done" /\ pdf_exists /\ page_count > 1 /\ tags = <<>> /\ all_rows = <<>>

\* the pages a stitcher has loaded rise one by one from the block's origin page
\* and stay inside the document
C7_VisitsBounded ==
    pc \in {"stitch", "extract"} =>
        /\ Len(visited) <= page_count
        /\ \A i \in 1..Len(visited) :
              /\ visited[i].page < page_count
              /\ visited[i].page > cur.page
              /\ i > 1 => visited[i].page > visited[i - 1].page

\* C7: the stitcher returns for every document and origin page: while it runs
\* its page index is below page_count, a step is enabled and every step raises
\* the index, so it loads at most page_count pages, each index above the
\* previous one and below page_count.
C7_StitchTerminates ==
    /\ [](C7_VisitsBounded /\ (pc = "stitch" => stitch_page < page_count /\ ENABLED Next))
    /\ [][pc = "stitch" => stitch_page' = stitch_page + 1 /\ pc' \in {"stitch", "extract"}]_vars

\* a stitcher that loaded two pages
C7_Witness ==
    pc = "extract" /\ Len(visited) = 2

C9_StopsAtLandmark ==
    pc \in {"stitch", "extract"} =>
        LET n == Len(visited)
            m == Len(crop_rectangles_list)
        IN  /\ m - n \in {0, 1}
            /\ \A i \in 1..n :
                  /\ visited[i].page = cur.page + i
                  /\ crop_rectangles_list[m - n + i].page = visited[i].page
                  /\ i < n => visited[i].pat = NoHit
            /\ pc = "stitch" => \A i \in 1..n : visited[i].pat = NoHit
            /\ pc = "extract" =>
                  \/ n > 0 /\ visited[n].pat # NoHit
                  \/ cur.page + n = page_count - 1

\* the stitcher stopped on the page after the origin page, one page before the end
C9_Witness ==
    /\ pc = "extract"
    /\ Len(visited) = 1
    /\ visited[1].pat # NoHit
    /\ visited[1].page < page_count - 1

\* C10: the six header fields of a record are those of its origin page's text,
\* so two records of one page agree on them.
C10_HeaderPerPage ==
    /\ \A i \in Rows : \A k \in HEADER_FIELD_PATTERNS :
          all_rows[i][k] = extract_header_field_information(TextOfPage(emitted[i][1]))[k]
    /\ \A i, j \in Rows : emitted[i][1] = emitted[j][1] =>
          \A k \in HEADER_FIELD_PATTERNS : all_rows[i][k] = all_rows[j][k]

\* two different records made from blocks of one page
C10_Witness ==
    \E i, j \in Rows :
        i # j /\ emitted[i][1] = emitted[j][1] /\ all_rows[i] # all_rows[j]

\* C11: two runs over the same document give the same output: every field
\* value, the set-joined Service Code and Modifier of a single-page block
\* included, is a function of the document alone.
C11_RerunsAgree ==
    call.op = "single" /\ Len(call.out) = 2 => call.out[1] = call.out[2]

\* C12: a run whose document cannot be opened ends with an error surfaced to the
\* caller; it never completes normally with an (empty) output sequence.
C12_MissingDocumentIsFatal ==
    ~pdf_exists => pc # "done"

\* C13: the document is opened once, by the first step of a run whose path
\* exists, and is closed on every exit path: it is closed in every state where
\* the run has ended, normally or by an error raised while the generator was
\* suspended; it is open only while the page loop runs (where a step to the
\* next page or to the end is enabled) or a block is being processed.
C13_OpenedOnceClosedAtExit ==
    /\ [](pc \in {"done", "aborted"} => ~docOpen)
    /\ [](docOpen => \/ pc \in {"page", "stitch"} /\ ENABLED Next
                     \/ pc \in {"block", "extract"} /\ cur # NoBlock)
    /\ [][~docOpen /\ docOpen' => pc = "start" /\ pdf_exists]_vars
    /\ [][pc = "start" /\ pdf_exists => docOpen']_vars
    /\ [][pc # "start" => pc' # "start" /\ (~docOpen => ~docOpen')]_vars

\* a run ended by an error of a block, the document closed
C13_Witness ==
    pc = "aborted" /\ err # "none" /\ cur # NoBlock /\ ~docOpen

\* offsets at which a match of the patient-tag pattern starts
TagStarts(text) ==
    {i \in 1..(Len(text) - 1) : text[i] = "n" /\ text[i + 1] = "P"}

\* the k-th smallest element of a set of offsets
Nth(S, k) == CHOOSE i \in S : Cardinality({j \in S : j < i}) = k - 1

\* C14: a page text with n >= 1 tag occurrences at s_1 < ... < s_n yields n
\* blocks in that order; block k is the text from s_k up to s_(k+1) exclusive
\* (to the end for k = n) without its leading newlines, so it starts with the
\* tag text; nothing before s_1 is in a block and the spans are contiguous.
C14_BlocksAreTagSpans ==
    call.op = "segment" /\ call.done /\ TagStarts(call.text) # {} =>
        LET text == call.text
            S == TagStarts(text)
            n == Cardinality(S)
            last(k) == IF k < n THEN Nth(S, k + 1) - 1 ELSE Len(text)
        IN  /\ Len(call.out) = n
            /\ \A k \in 1..n :
                  LET span == SubSeq(text, Nth(S, k), last(k))
                  IN  /\ \E j \in 1..Len(span) :
                            /\ \A i \in 1..(j - 1) : span[i] = "n"
                            /\ span[j] # "n"
                            /\ call.out[k] = SubSeq(span, j, Len(span))
                      /\ call.out[k][1] = "P"

\* a text with something before its first tag and two tags, segmented
C14_Witness ==
    /\ call.op = "segment" /\ call.done
    /\ Len(call.out) = 2
    /\ 1 \notin TagStarts(call.text)
    /\ call.out[1] # call.out[2]

\* the region the running stitcher recorded for the i-th page it loaded
StitchedRegion(i) ==
    crop_rectangles_list[Len(crop_rectangles_list) - Len(visited) + i]

\* C15: on every page the stitcher loads, the region's lower bound is the top
\* of the first 'PATIENT:' hit, or the page height without one; its upper bound
\* is the bottom of 'CLAIM STATUS' when that label lies above the 'PATIENT:'
\* label (or anywhere on a page without 'PATIENT:'), and 63 otherwise.
C15_BoundsFollowLandmarks ==
    pc \in {"stitch", "extract"} =>
        \A i \in 1..Len(visited) :
            LET lay == layout[visited[i].page]
                above == lay.cs # NoHit /\ (lay.pat = NoHit \/ lay.cs <= lay.pat)
            IN  /\ StitchedRegion(i).y1 = (IF lay.pat # NoHit THEN lay.pat ELSE PageHeight)
                /\ StitchedRegion(i).y0 = (IF above THEN lay.cs ELSE DEFAULT_TOP)

\* C16: the rectangle's top is the claim hit's bottom edge + 30; its bottom is
\* (1) the top of the original reference number when located, else (2) the top
\* of the next claim number - 20 when there is one, else (3) the lowest
\* 'PAT RESP:' at or below the claim row; a rule is consulted only when every
\* rule before it yields no value, and a rectangle is returned only for a
\* resolved bottom > top.
C16_BottomByPriority ==
    call.op = "crop" /\ call.done =>
        LET top == call.claim_y1 + 30
            lower == {h \in call.responses : h >= call.claim_y0}
            bottom == IF call.reference_y0 # NoHit THEN call.reference_y0
                      ELSE IF call.next_y0 # NoHit THEN call.next_y0 - 20
                      ELSE IF lower # {} THEN MaxOf(lower)
                      ELSE NoHit
        IN  call.out = IF call.claim_y1 # NoHit /\ bottom # NoHit /\ bottom > top
                       THEN [y0 |-> top, y1 |-> bottom]
                       ELSE NoRect

\* the lines the called multi-page extractor clips, region after region
C17_Read == RegionLines(call.list, call.col, 1)

\* the field value the called multi-page extractor returned
C17_Value == CHOOSE v \in call.out.vals : TRUE

\* C17: a multi-page field is the join of the distinct non-blank stripped lines
\* of the field's column over the recorded regions in list order: no value is
\* in it twice, and a precedes b exactly when a is first seen before b.
C17_DistinctInFirstSeenOrder ==
    call.op = "multi" /\ call.done /\ call.out.err = "none" =>
        LET firstSeen(x) == MinOf({i \in 1..Len(C17_Read) : C17_Read[i] % 100 = x})
        IN  /\ call.out.vals = {C17_Value}
            /\ {C17_Value[i] : i \in 1..Len(C17_Value)}
                   = {C17_Read[i] % 100 : i \in 1..Len(C17_Read)} \ {0}
            /\ \A i, j \in 1..Len(C17_Value) :
                  i < j => /\ C17_Value[i] # C17_Value[j]
                           /\ firstSeen(C17_Value[i]) < firstSeen(C17_Value[j])

\* three regions, a line on each page, the last a padded repeat of the first
C17_Witness ==
    /\ call.op = "multi" /\ call.done /\ call.out.err = "none"
    /\ Len(call.list) = 3
    /\ \A p \in 0..2 : Len(column_text[p][call.col]) = 1
    /\ column_text[2][call.col][1] = 100 + column_text[0][call.col][1]
    /\ Len(C17_Value) = 2

\* a stitcher of an earlier block has loaded page p, ahead of the page loop
StitchedBefore(p) == layout[p] # Unread

\* C18: a region the stitcher records for a block was not recorded for another
\* block before, and a page a stitcher took whole as continuation (no
\* 'PATIENT:' found on it) yields no block when the page loop segments it.
C18_NoDoubleCounting ==
    [][/\ pc = "stitch" /\ Len(visited') > Len(visited)
             => ~StitchedBefore(stitch_page + 1)
       /\ pc = "page" /\ Len(tags') > Len(tags)
             => ~(StitchedBefore(page_number) /\ layout[page_number].pat = NoHit)]_vars

\* C19: while a block is being processed, its searches, clipped reads and the
\* stitcher's page loads included, the document opened by the generator is
\* open: the generator is suspended at the yield of that block.
C19_OpenWhileProcessing ==
    pc \in {"block", "stitch", "extract"} => docOpen /\ cur # NoBlock

\* the stitcher of the second block of a page has loaded a later page
C19_Witness ==
    pc = "stitch" /\ cur.idx = 2 /\ Len(visited) >= 1 /\ docOpen

\* C20: every rectangle the stitcher records has its top above its bottom,
\* whatever the positions of 'PATIENT:' and 'CLAIM STATUS' on the loaded page.
C20_StitchRectanglesWellFormed ==
    pc \in {"stitch", "extract"} =>
        \A i \in 1..Len(visited) : StitchedRegion(i).y0 < StitchedRegion(i).y1

\* C21: the origin-page region that heads the crop list of a block without
\* closing marker runs from the bottom edge of that block's own claim number
\* + 10 to the page bottom, whatever place the block has on its page.
C21_FirstSectionFromOwnClaim ==
    pc \in {"stitch", "extract"} /\ Len(crop_rectangles_list) > Len(visited) =>
        /\ cur.span.clm
        /\ crop_rectangles_list[1] =
               [page |-> cur.page, y0 |-> RowY1(cur.pos) + 10, y1 |-> PageHeight]

\* C22: a multi-page extractor raises nothing on account of the length of the
\* crop list: an empty list gives '', a list of one region is read like a
\* longer one.
C22_AnyListLength ==
    call.op = "multi" /\ call.done =>
        /\ call.out.err # "ValueError"
        /\ call.list = <<>> => call.out = Ok(EmptyStr)

====
